---- MODULE Spec2Model ----
(***************************************************************************)
(* Orders / inventory synchronisation job (src/src/app/main.py).           *)
(*                                                                         *)
(* main() runs two pipelines in sequence, orders then inventory.  Each     *)
(* pipeline is fetch_api_data -> process_<kind>_dataframe ->               *)
(* upload_to_google_sheets.  The remote API, the pandas casts and the      *)
(* spreadsheet backend are modelled by what the calls in main.py rely on.  *)
(***************************************************************************)
EXTENDS Integers, Sequences, FiniteSets, TLC

(***************************************************************************)
(* Bounds of the model.                                                    *)
(***************************************************************************)
\* Largest value of config.MAX_RETRIES explored (0 .. MaxRetriesBound).
MaxRetriesBound == 2

(***************************************************************************)
(* Cells.  A JSON string is a sequence of characters, a JSON number an     *)
(* integer; a key that a record lacks becomes NaN in the DataFrame.        *)
(***************************************************************************)
Str(chars) == [t |-> "str", s |-> chars, v |-> 0]
Int_(n)    == [t |-> "int", s |-> <<>>,  v |-> n]
NaN        == [t |-> "nan", s |-> <<>>,  v |-> 0]
\* A header cell written by set_with_dataframe: the column's name.
Header(name) == [t |-> "hdr", s |-> <<name>>, v |-> 0]

Digits == {"0", "1", "2", "3", "4", "5", "6", "7", "8", "9"}

DigitVal(ch) ==
    CASE ch = "0" -> 0 [] ch = "1" -> 1 [] ch = "2" -> 2 [] ch = "3" -> 3
      [] ch = "4" -> 4 [] ch = "5" -> 5 [] ch = "6" -> 6 [] ch = "7" -> 7
      [] ch = "8" -> 8 [] ch = "9" -> 9

DigitChar(d) ==
    CASE d = 0 -> "0" [] d = 1 -> "1" [] d = 2 -> "2" [] d = 3 -> "3"
      [] d = 4 -> "4" [] d = 5 -> "5" [] d = 6 -> "6" [] d = 7 -> "7"
      [] d = 8 -> "8" [] d = 9 -> "9"

AllDigits(chars) == Len(chars) > 0 /\ \A i \in 1..Len(chars) : chars[i] \in Digits

\* Python's int(str): an optional sign followed by one or more digits.
IntLiteral(chars) ==
    /\ Len(chars) > 0
    /\ IF chars[1] \in {"-", "+"} THEN AllDigits(Tail(chars)) ELSE AllDigits(chars)

RECURSIVE DigitsValue(_, _)
DigitsValue(chars, acc) ==
    IF chars = <<>> THEN acc
    ELSE DigitsValue(Tail(chars), 10 * acc + DigitVal(Head(chars)))

ParseInt(chars) ==
    IF chars[1] = "-" THEN 0 - DigitsValue(Tail(chars), 0)
    ELSE IF chars[1] = "+" THEN DigitsValue(Tail(chars), 0)
    ELSE DigitsValue(chars, 0)

RECURSIVE NatChars(_)
NatChars(n) ==
    IF n < 10 THEN <<DigitChar(n)>>
    ELSE Append(NatChars(n \div 10), DigitChar(n % 10))

\* Python's str(int).
FormatInt(n) == IF n < 0 THEN <<"-">> \o NatChars(0 - n) ELSE NatChars(n)

\* Whether int(cell) succeeds for one cell of a column being cast to int.
IntCastable(cell) ==
    \/ cell.t = "int"
    \/ cell.t = "str" /\ IntLiteral(cell.s)

CastCell(cell, dtype) ==
    IF dtype = "int"
    THEN (IF cell.t = "str" THEN Int_(ParseInt(cell.s)) ELSE cell)
    ELSE (CASE cell.t = "int" -> Str(FormatInt(cell.v))
            [] cell.t = "nan" -> Str(<<"n", "a", "n">>)
            [] OTHER -> cell)

\* A cast of one cell that a partial coercion would leave behind.
CastCellIfPossible(cell, dtype) ==
    IF dtype = "int" /\ ~IntCastable(cell) THEN cell ELSE CastCell(cell, dtype)

\* A cast cell by cell that skips the cells it cannot cast.
AsTypePartial(cells, dtype) ==
    [raised |-> FALSE,
     cells  |-> [i \in 1..Len(cells) |-> CastCellIfPossible(cells[i], dtype)]]

\* Series.astype(dtype) on a column (a sequence of cells): the whole column is
\* cast, or ValueError / TypeError is raised and nothing is assigned.
AsType(cells, dtype) ==
    IF dtype = "int" /\ \E i \in 1..Len(cells) : ~IntCastable(cells[i])
    THEN [raised |-> TRUE, cells |-> cells]
    ELSE [raised |-> FALSE,
          cells  |-> [i \in 1..Len(cells) |-> CastCell(cells[i], dtype)]]

(***************************************************************************)
(* Payloads and DataFrames.                                                *)
(*   payload : [shape, records]; shape "list" is a JSON array of objects,  *)
(*             "object" a JSON object of scalars, "number" a JSON number,  *)
(*             "none" is Python's None.                                    *)
(*   record  : a sequence of <<key, cell>> pairs in document order.        *)
(*   frame   : [isNone, columns, rows]; rows are functions column -> cell.  *)
(***************************************************************************)
NonePayload == [shape |-> "none", records |-> <<>>]
NoneDF      == [isNone |-> TRUE, columns |-> <<>>, rows |-> <<>>]

Keys(record) == {record[i][1] : i \in 1..Len(record)}

Lookup(record, key) ==
    IF key \in Keys(record)
    THEN record[CHOOSE i \in 1..Len(record) : record[i][1] = key][2]
    ELSE NaN

RECURSIVE AddKeys(_, _)
AddKeys(columns, record) ==
    IF record = <<>> THEN columns
    ELSE AddKeys(IF \E i \in 1..Len(columns) : columns[i] = Head(record)[1]
                 THEN columns ELSE Append(columns, Head(record)[1]),
                 Tail(record))

RECURSIVE ColumnsOf(_, _)
ColumnsOf(records, columns) ==
    IF records = <<>> THEN columns
    ELSE ColumnsOf(Tail(records), AddKeys(columns, Head(records)))

ColumnSet(frame) == {frame.columns[i] : i \in 1..Len(frame.columns)}

\* pd.DataFrame(data): [raised, frame].
DataFrame(data) ==
    CASE data.shape = "list" ->
           LET cols == ColumnsOf(data.records, <<>>) IN
           [raised |-> FALSE,
            frame  |-> [isNone  |-> FALSE,
                        columns |-> cols,
                        rows    |-> [i \in 1..Len(data.records) |->
                                      [c \in {cols[j] : j \in 1..Len(cols)} |->
                                        Lookup(data.records[i], c)]]]]
      [] data.shape = "none" \/ (data.shape = "object" /\ data.records = <<>>) ->
           [raised |-> FALSE,
            frame  |-> [isNone |-> FALSE, columns |-> <<>>, rows |-> <<>>]]
      [] OTHER -> [raised |-> TRUE, frame |-> NoneDF]

\* df.empty: an axis of length 0.
Empty(frame) == Len(frame.rows) = 0 \/ Len(frame.columns) = 0

Column(frame, column) == [i \in 1..Len(frame.rows) |-> frame.rows[i][column]]

SetColumn(frame, column, cells) ==
    [frame EXCEPT !.rows =
        [i \in 1..Len(frame.rows) |-> [frame.rows[i] EXCEPT ![column] = cells[i]]]]

OrdersConversions ==
    << [column |-> "order_id", dtype |-> "str"],
       [column |-> "store_id", dtype |-> "int"],
       [column |-> "quantity", dtype |-> "int"] >>

InventoryConversions ==
    << [column |-> "store_id", dtype |-> "int"],
       [column |-> "quantity", dtype |-> "int"] >>

Conversions(kind) ==
    IF kind = "orders" THEN OrdersConversions ELSE InventoryConversions

\* A loop that a failed conversion ends.
RECURSIVE ApplyConversionsAbort(_, _)
ApplyConversionsAbort(st, conversions) ==
    IF conversions = <<>> THEN st
    ELSE LET column == Head(conversions).column
             dtype  == Head(conversions).dtype
         IN  IF column \in ColumnSet(st.frame)
             THEN LET cast == AsType(Column(st.frame, column), dtype) IN
                  IF cast.raised
                  THEN [st EXCEPT !.warnings = Append(@, column)]
                  ELSE ApplyConversionsAbort(
                         [st EXCEPT !.frame = SetColumn(@, column, cast.cells)],
                         Tail(conversions))
             ELSE ApplyConversionsAbort(st, Tail(conversions))

\* The loop over conversions.items(): st = [frame, warnings].
RECURSIVE ApplyConversions(_, _)
ApplyConversions(st, conversions) ==
    IF conversions = <<>> THEN st
    ELSE LET column == Head(conversions).column
             dtype  == Head(conversions).dtype
         IN  IF column \in ColumnSet(st.frame)
             THEN LET cast == AsType(Column(st.frame, column), dtype) IN
                  IF cast.raised
                  THEN ApplyConversions(
                         [st EXCEPT !.warnings = Append(@, column)],
                         Tail(conversions))
                  ELSE ApplyConversions(
                         [st EXCEPT !.frame = SetColumn(@, column, cast.cells)],
                         Tail(conversions))
             ELSE ApplyConversions(st, Tail(conversions))

\* The same function without the df.empty test.
ProcessDataframeNoEmptyTest(data, kind) ==
    LET made == DataFrame(data) IN
    IF made.raised THEN [frame |-> NoneDF, warnings |-> <<>>]
    ELSE ApplyConversions([frame |-> made.frame, warnings |-> <<>>],
                          Conversions(kind))

\* process_orders_dataframe / process_inventory_dataframe: [frame, warnings],
\* warnings being the columns whose conversion was logged as failed.
ProcessDataframe(data, kind) ==
    LET made == DataFrame(data) IN
    IF made.raised THEN [frame |-> NoneDF, warnings |-> <<>>]
    ELSE IF Empty(made.frame) THEN [frame |-> NoneDF, warnings |-> <<>>]
    ELSE ApplyConversions([frame |-> made.frame, warnings |-> <<>>],
                          Conversions(kind))

(***************************************************************************)
(* Inputs explored: response bodies of the API, configurations, and the    *)
(* spreadsheet as it stands before the run.                                *)
(***************************************************************************)
Rec2(k1, c1, k2, c2)         == << <<k1, c1>>, <<k2, c2>> >>
Rec3(k1, c1, k2, c2, k3, c3) == << <<k1, c1>>, <<k2, c2>>, <<k3, c3>> >>

ListPayload(records) == [shape |-> "list", records |-> records]

\* [] : zero records.
EmptyList == ListPayload(<<>>)
\* [{"store_id": "1", "quantity": "10"}, {"store_id": "2", "quantity": "20"}]
TwoStores ==
    ListPayload(<< Rec2("store_id", Str(<<"1">>), "quantity", Str(<<"1", "0">>)),
                   Rec2("store_id", Str(<<"2">>), "quantity", Str(<<"2", "0">>)) >>)
\* quantity "3", "abc", "5"; order_id numeric, store_id castable.
BadQuantity ==
    ListPayload(<< Rec3("order_id", Int_(7), "store_id", Str(<<"1">>),
                        "quantity", Str(<<"3">>)),
                   Rec3("order_id", Int_(8), "store_id", Str(<<"-", "2">>),
                        "quantity", Str(<<"a", "b", "c">>)),
                   Rec3("order_id", Int_(12), "store_id", Str(<<"4">>),
                        "quantity", Str(<<"5">>)) >>)
\* store_id not castable in one record, quantity castable; keys in another order.
BadStore ==
    ListPayload(<< Rec2("quantity", Str(<<"6">>), "store_id", Str(<<"1", ".", "5">>)),
                   Rec2("quantity", Int_(9), "store_id", Str(<<"3">>)) >>)
\* No store_id column at all; the second record lacks quantity.
Ragged ==
    ListPayload(<< Rec2("order_id", Str(<<"a", "1">>), "quantity", Str(<<"4">>)),
                   << <<"order_id", Str(<<"a", "2">>)>> >> >>)
\* {"error": "down"} : a JSON object of scalars.
ErrorObject ==
    [shape |-> "object", records |-> << << <<"error", Str(<<"d">>)>> >> >>]
\* 5 : a JSON number.
NumberBody == [shape |-> "number", records |-> <<>>]

Bodies == {EmptyList, TwoStores, BadQuantity, BadStore, Ragged, ErrorObject, NumberBody}

Kinds == {"orders", "inventory"}

WsNames == {"Orders", "Inventory", "Archive"}

\* conf/config.py: the settings main.py reads, MAX_RETRIES apart.
Targets ==
    { [ORDERS_WORKSHEET_NAME |-> "Orders", INVENTORY_WORKSHEET_NAME |-> "Inventory",
       ORDERS_START_ROW |-> 1, ORDERS_START_COL |-> 1,
       INVENTORY_START_ROW |-> 1, INVENTORY_START_COL |-> 4,
       RETRY_DELAY |-> 2],
      [ORDERS_WORKSHEET_NAME |-> "Orders", INVENTORY_WORKSHEET_NAME |-> "Orders",
       ORDERS_START_ROW |-> 1, ORDERS_START_COL |-> 1,
       INVENTORY_START_ROW |-> 2, INVENTORY_START_COL |-> 2,
       RETRY_DELAY |-> 5] }

Configs ==
    { [MAX_RETRIES |-> m, targets |-> t] : m \in 0..MaxRetriesBound, t \in Targets }

\* The build: which of the lazily imported libraries are installed, and whether
\* requests' JSONDecodeError derives from RequestException (requests >= 2.27)
\* or is the json module's ValueError only (older requests).
Envs ==
    { [libraries |-> l, jsonErrorIsRequestException |-> j] :
        l \in {"all", "no_gspread", "no_gspread_dataframe"}, j \in BOOLEAN }

(***************************************************************************)
(* The spreadsheet backend.                                                *)
(*   spreadsheet : [exists, worksheets]                                    *)
(*   worksheet   : [present, rows, cols, cells], cells a set of [r, c, v]  *)
(***************************************************************************)
NoWorksheet == [present |-> FALSE, rows |-> 0, cols |-> 0, cells |-> {}]

StaleWorksheet ==
    [present |-> TRUE, rows |-> 3, cols |-> 4,
     cells |-> { [r |-> 1, c |-> 1, v |-> Str(<<"o", "l", "d">>)],
                 [r |-> 2, c |-> 4, v |-> Int_(7)],
                 [r |-> 3, c |-> 3, v |-> Str(<<"x">>)] }]

Spreadsheets ==
    { [exists |-> FALSE, worksheets |-> [n \in WsNames |-> NoWorksheet]],
      [exists |-> TRUE,
       worksheets |-> [n \in WsNames |->
                         IF n = "Archive" THEN StaleWorksheet ELSE NoWorksheet]],
      [exists |-> TRUE, worksheets |-> [n \in WsNames |-> StaleWorksheet]] }

\* sh.add_worksheet(title=worksheet_name, rows=1000, cols=20)
DefaultRows == 1000
DefaultCols == 20

AddWorksheet(sh, name) ==
    [sh EXCEPT !.worksheets[name] =
        [present |-> TRUE, rows |-> DefaultRows, cols |-> DefaultCols, cells |-> {}]]

Max(a, b) == IF a >= b THEN a ELSE b

LastUsedRow(ws) ==
    IF ws.cells = {} THEN 0
    ELSE CHOOSE r \in {x.r : x \in ws.cells} : \A x \in ws.cells : x.r <= r

\* Removing the used rows instead of clearing them.
ClearByDeletingRows(sh, name) ==
    [sh EXCEPT !.worksheets[name].cells = {},
               !.worksheets[name].rows  = @ - LastUsedRow(sh.worksheets[name])]

\* A clear that empties every worksheet of the spreadsheet.
ClearEveryWorksheet(sh, name) ==
    [sh EXCEPT !.worksheets = [n \in DOMAIN @ |-> [@[n] EXCEPT !.cells = {}]]]

\* A clear that empties nothing.
ClearNothing(sh, name) == sh

\* worksheet.clear(): every cell of the worksheet is emptied, its size is kept.
Clear(sh, name) == [sh EXCEPT !.worksheets[name].cells = {}]

\* The cells set_with_dataframe writes: the header row at the anchor, then one
\* row per DataFrame row, columns left to right.
FrameCells(frame, row, col) ==
    { [r |-> row, c |-> col + j - 1, v |-> Header(frame.columns[j])] :
        j \in 1..Len(frame.columns) }
    \cup
    { [r |-> row + i, c |-> col + j - 1, v |-> frame.rows[i][frame.columns[j]]] :
        i \in 1..Len(frame.rows), j \in 1..Len(frame.columns) }

\* A write that ignores the anchor and starts at A1.
SetWithDataframeAtOrigin(sh, name, frame, row, col) ==
    LET ws    == sh.worksheets[name]
        range == FrameCells(frame, 1, 1)
    IN  [sh EXCEPT !.worksheets[name] =
           [present |-> TRUE,
            rows    |-> Max(ws.rows, 1 + Len(frame.rows)),
            cols    |-> Max(ws.cols, Len(frame.columns)),
            cells   |-> { x \in ws.cells :
                            ~\E w \in range : w.r = x.r /\ w.c = x.c } \cup range]]

\* set_with_dataframe(worksheet, df, row=start_row, col=start_col): the worksheet
\* grows to hold the written range, cells in the range are overwritten, cells
\* outside it are left as they are.
SetWithDataframe(sh, name, frame, row, col) ==
    LET ws    == sh.worksheets[name]
        range == FrameCells(frame, row, col)
    IN  [sh EXCEPT !.worksheets[name] =
           [present |-> TRUE,
            rows    |-> Max(ws.rows, row + Len(frame.rows)),
            cols    |-> Max(ws.cols, col + Len(frame.columns) - 1),
            cells   |-> { x \in ws.cells :
                            ~\E w \in range : w.r = x.r /\ w.c = x.c } \cup range]]

(***************************************************************************)
(* State.                                                                  *)
(***************************************************************************)
VARIABLES
    config,             \* conf.config, read once at import (main.py 60-72)
    env,                \* the build the script runs in
    spreadsheet,        \* the Google spreadsheet named SHEET_NAME
    pc,                 \* position of the single thread of control
    kind,               \* the pipeline in progress: "orders" or "inventory"
    attempt,            \* fetch_api_data: loop variable
    data,               \* process_<kind>: <kind>_data
    df,                 \* process_<kind>: <kind>_df
    warnings,           \* columns whose conversion failure was logged
    call,               \* upload_to_google_sheets: its arguments
    ret,                \* value being returned by upload / process_<kind>
    failed,             \* step at which the upload in progress gave up, or "none"
    orders_success,     \* main: orders_success
    inventory_success,  \* main: inventory_success
    success,            \* __main__: success
    exit_code,          \* argument of sys.exit, -1 before it is called
    gets,               \* per kind: requests.get calls issued
    sleeps,             \* per kind: durations of the time.sleep calls made
    history,            \* outcomes of the attempts of the fetch in progress
    served,             \* body parsed by the latest response.json() of that fetch
    stages,             \* per kind: stage events of the pipeline, in order
    atStart,            \* the spreadsheet when the pipeline in progress began
    interrupted,        \* KeyboardInterrupt was delivered
    raised,             \* exception that left upload_to_google_sheets
    written,            \* per kind: cells its upload wrote before returning True
    calls,              \* publish harness: calls of upload made so far
    afterFirst          \* publish harness: spreadsheet after the first call

vars == << config, env, spreadsheet, pc, kind, attempt, data, df, warnings, call,
           ret, failed, orders_success, inventory_success, success, exit_code, gets,
           sleeps, history, served, stages, atStart, interrupted, raised, written, calls,
           afterFirst >>

NoCall ==
    [df |-> NoneDF, worksheet_name |-> "Archive", start_row |-> 0, start_col |-> 0,
     data_type |-> "none"]

Common ==
    /\ attempt = 0
    /\ data = NonePayload
    /\ df = NoneDF
    /\ warnings = <<>>
    /\ ret = FALSE
    /\ orders_success = FALSE
    /\ inventory_success = FALSE
    /\ success = FALSE
    /\ exit_code = -1
    /\ gets = [k \in Kinds |-> 0]
    /\ sleeps = [k \in Kinds |-> <<>>]
    /\ history = <<>>
    /\ served = NonePayload
    /\ failed = "none"
    /\ written = [k \in Kinds |-> {}]
    /\ stages = [k \in Kinds |-> <<>>]
    /\ interrupted = FALSE
    /\ raised = "none"
    /\ calls = 0

Init ==
    /\ config \in Configs
    /\ env \in Envs
    /\ spreadsheet \in Spreadsheets
    /\ pc = "main"
    /\ kind = "orders"
    /\ call = NoCall
    /\ atStart = spreadsheet
    /\ afterFirst = spreadsheet
    /\ Common

(***************************************************************************)
(* fetch_api_data (main.py 75-114).                                        *)
(***************************************************************************)
\* What one pass through the try block of an attempt ends with: an exception
\* raised by requests.get / raise_for_status / response.json, an exception of
\* no anticipated class, or a parsed body.
RequestFailures == {"ConnectionError", "Timeout", "HTTPError"}

GetOutcomes ==
    { [exc |-> e, body |-> NonePayload] :
        e \in RequestFailures \cup {"JSONDecodeError", "RuntimeError"} }
    \cup { [exc |-> "none", body |-> b] : b \in Bodies }

\* The exception, if any, that leaves the try block: len(data) on line 95
\* raises TypeError for a body that is a bare number.
Raises(outcome) ==
    IF outcome.exc # "none" THEN outcome.exc
    ELSE IF outcome.body.shape = "number" THEN "TypeError"
    ELSE "none"

\* The handled classes an exception is an instance of.
ExcClasses(e) ==
    CASE e \in RequestFailures -> {"RequestException"}
      [] e = "JSONDecodeError" ->
            IF env.jsonErrorIsRequestException
            THEN {"RequestException", "ValueError"}
            ELSE {"ValueError"}
      [] OTHER -> {}

\* Clauses in which whatever is not a ValueError is retried.
HandlerRetryAll(e) ==
    IF "RequestException" \in ExcClasses(e) THEN "request"
    ELSE IF "ValueError" \in ExcClasses(e) THEN "value"
    ELSE "request"

\* The except clauses of lines 98-112, matched first to last.
Handler(e) ==
    IF "RequestException" \in ExcClasses(e) THEN "request"
    ELSE IF "ValueError" \in ExcClasses(e) THEN "value"
    ELSE "other"

Tag(e) ==
    CASE e \in RequestFailures -> "transport"
      [] e = "JSONDecodeError" -> "parse"
      [] e = "none" -> "ok"
      [] OTHER -> "unexpected"

\* A loop that makes one attempt fewer.
InRangeShort(n, max_retries) == n < max_retries - 1

\* A loop that makes one attempt more.
InRangeInclusive(n, max_retries) == n <= max_retries

\* for attempt in range(max_retries)
InRange(n, max_retries) == n < max_retries

Log(event) == [stages EXCEPT ![kind] = Append(@, event)]

FetchAttempt ==
    /\ pc = "fetch"
    /\ InRange(attempt, config.MAX_RETRIES)
    /\ \E outcome \in GetOutcomes :
         LET e == Raises(outcome) IN
         /\ gets' = [gets EXCEPT ![kind] = @ + 1]
         /\ history' = Append(history, Tag(e))
         /\ served' = (IF outcome.exc = "none" THEN outcome.body ELSE served)
         /\ IF e = "none"
            THEN /\ data' = outcome.body
                 /\ stages' = Log("fetch_ok")
                 /\ pc' = "fetch_ret"
                 /\ UNCHANGED attempt
            ELSE IF Handler(e) = "request"
            THEN /\ UNCHANGED << data, stages >>
                 /\ IF attempt < config.MAX_RETRIES - 1
                    THEN pc' = "sleep" /\ UNCHANGED attempt
                    ELSE pc' = "fetch" /\ attempt' = attempt + 1
            ELSE /\ data' = NonePayload
                 /\ stages' = Log("fetch_none")
                 /\ pc' = "fetch_ret"
                 /\ UNCHANGED attempt
    /\ UNCHANGED << config, env, spreadsheet, kind, df, warnings, call, ret, failed,
                    orders_success, inventory_success, success, exit_code, sleeps,
                    atStart, interrupted, raised, written, calls, afterFirst >>

\* A delay that grows with the attempts made.
FetchSleepBackoff ==
    /\ pc = "sleep"
    /\ sleeps' = [sleeps EXCEPT ![kind] =
                    Append(@, config.targets.RETRY_DELAY * (attempt + 2))]
    /\ attempt' = attempt + 1
    /\ pc' = "fetch"
    /\ UNCHANGED << config, env, spreadsheet, kind, data, df, warnings, call, ret,
                    failed, orders_success, inventory_success, success, exit_code,
                    gets, history, served, stages, atStart, interrupted, raised,
                    written, calls, afterFirst >>

\* A sleep that leaves the loop variable where it was.
FetchSleepSameAttempt ==
    /\ pc = "sleep"
    /\ sleeps' = [sleeps EXCEPT ![kind] = Append(@, config.targets.RETRY_DELAY)]
    /\ pc' = "fetch"
    /\ UNCHANGED << config, env, spreadsheet, kind, attempt, data, df, warnings,
                    call, ret, failed, orders_success, inventory_success, success,
                    exit_code, gets, history, served, stages, atStart, interrupted,
                    raised, written, calls, afterFirst >>

\* time.sleep(RETRY_DELAY), then the next iteration.
FetchSleep ==
    /\ pc = "sleep"
    /\ sleeps' = [sleeps EXCEPT ![kind] = Append(@, config.targets.RETRY_DELAY)]
    /\ attempt' = attempt + 1
    /\ pc' = "fetch"
    /\ UNCHANGED << config, env, spreadsheet, kind, data, df, warnings, call, ret, failed,
                    orders_success, inventory_success, success, exit_code, gets,
                    history, served, stages, atStart, interrupted, raised, written, calls,
                    afterFirst >>

\* The loop is over: return None (line 114).
FetchExhausted ==
    /\ pc = "fetch"
    /\ ~InRange(attempt, config.MAX_RETRIES)
    /\ data' = NonePayload
    /\ stages' = Log("fetch_none")
    /\ pc' = "fetch_ret"
    /\ UNCHANGED << config, env, spreadsheet, kind, attempt, df, warnings, call,
                    ret, failed, orders_success, inventory_success, success, exit_code,
                    gets, sleeps, history, served, atStart, interrupted, raised, written, calls,
                    afterFirst >>

(***************************************************************************)
(* process_orders / process_inventory (main.py 298-381).                   *)
(***************************************************************************)
Target(k) ==
    IF k = "orders"
    THEN [worksheet_name |-> config.targets.ORDERS_WORKSHEET_NAME,
          start_row      |-> config.targets.ORDERS_START_ROW,
          start_col      |-> config.targets.ORDERS_START_COL]
    ELSE [worksheet_name |-> config.targets.INVENTORY_WORKSHEET_NAME,
          start_row      |-> config.targets.INVENTORY_START_ROW,
          start_col      |-> config.targets.INVENTORY_START_COL]

\* The DataFrame step entered whatever the fetch returned.
ProcessNormalizeUngated ==
    /\ pc = "fetch_ret"
    /\ LET r == ProcessDataframe(data, kind) IN
         /\ df' = r.frame
         /\ warnings' = r.warnings
         /\ stages' = Log(IF r.frame.isNone THEN "normalize_none"
                          ELSE "normalize_table")
         /\ pc' = "normalized"
         /\ UNCHANGED << ret, failed >>
    /\ UNCHANGED << config, env, spreadsheet, kind, attempt, data, call,
                    orders_success, inventory_success, success, exit_code, gets,
                    sleeps, history, served, atStart, interrupted, raised, written, calls,
                    afterFirst >>

\* Lines 310-315 / 353-358: return False when the fetch gave None, else build
\* the DataFrame.
ProcessNormalize ==
    /\ pc = "fetch_ret"
    /\ IF data = NonePayload
       THEN /\ ret' = FALSE
            /\ pc' = "process_ret"
            /\ UNCHANGED << df, warnings, stages, failed >>
       ELSE LET r == ProcessDataframe(data, kind) IN
            /\ df' = r.frame
            /\ warnings' = r.warnings
            /\ stages' = Log(IF r.frame.isNone THEN "normalize_none"
                             ELSE "normalize_table")
            /\ pc' = "normalized"
            /\ UNCHANGED << ret, failed >>
    /\ UNCHANGED << config, env, spreadsheet, kind, attempt, data, call,
                    orders_success, inventory_success, success, exit_code, gets,
                    sleeps, history, served, atStart, interrupted, raised, written, calls,
                    afterFirst >>

\* Lines 316-329 / 359-372: return False when there is no DataFrame, else call
\* upload_to_google_sheets with the kind's target.
ProcessUpload ==
    /\ pc = "normalized"
    /\ IF df.isNone
       THEN /\ ret' = FALSE
            /\ pc' = "process_ret"
            /\ UNCHANGED << call, stages, failed >>
       ELSE /\ call' = [df             |-> df,
                        worksheet_name |-> Target(kind).worksheet_name,
                        start_row      |-> Target(kind).start_row,
                        start_col      |-> Target(kind).start_col,
                        data_type      |-> kind]
            /\ stages' = Log("publish_called")
            /\ pc' = "upload_import"
            /\ UNCHANGED << ret, failed >>
    /\ UNCHANGED << config, env, spreadsheet, kind, attempt, data, df, warnings,
                    orders_success, inventory_success, success, exit_code, gets,
                    sleeps, history, served, atStart, interrupted, raised, written, calls,
                    afterFirst >>

\* Lines 331-338 / 374-381: the upload's result is the pipeline's result.
ProcessAfterUpload ==
    /\ pc = "upload_ret"
    /\ stages' = Log(IF ret THEN "publish_true" ELSE "publish_false")
    /\ pc' = "process_ret"
    /\ UNCHANGED << config, env, spreadsheet, kind, attempt, data, df, warnings,
                    call, ret, failed, orders_success, inventory_success, success,
                    exit_code, gets, sleeps, history, served, atStart, interrupted, raised, written,
                    calls, afterFirst >>

(***************************************************************************)
(* upload_to_google_sheets (main.py 208-295).  Every step either goes on   *)
(* to the next one or ends the call: with False, or with an exception.     *)
(***************************************************************************)
uploadFrame == << config, env, kind, attempt, data, df, warnings, call,
                  orders_success, inventory_success, success, exit_code, gets,
                  sleeps, history, served, stages, atStart, interrupted, calls,
                  afterFirst >>

\* The handlers of lines 280-295 (and line 248): log the reason, return False.
ReturnFalse(step) ==
    /\ ret' = FALSE
    /\ failed' = step
    /\ pc' = "upload_ret"

\* Lines 228-229.  A failed `import gspread` leaves the local name gspread
\* unbound, so matching the ImportError against `except
\* gspread.exceptions.APIError` (line 280) raises UnboundLocalError, which no
\* clause of this try statement handles.  A failed import of gspread_dataframe
\* is an ImportError handled by `except Exception` (line 291).
UploadImport ==
    /\ pc = "upload_import"
    /\ CASE env.libraries = "no_gspread" ->
              /\ raised' = "UnboundLocalError"
              /\ pc' = "upload_raise"
              /\ UNCHANGED << ret, failed >>
         [] env.libraries = "no_gspread_dataframe" ->
              /\ ReturnFalse("import")
              /\ UNCHANGED raised
         [] OTHER ->
              /\ pc' = "upload_creds"
              /\ UNCHANGED << ret, failed, raised >>
    /\ UNCHANGED written
    /\ UNCHANGED spreadsheet
    /\ UNCHANGED uploadFrame

\* Lines 232-252: the credentials file at its path, else in the working
\* directory, else return False.
UploadCredentials ==
    /\ pc = "upload_creds"
    /\ \E found \in {"path", "cwd", "nowhere"} :
         IF found = "nowhere"
         THEN ReturnFalse("credentials")
         ELSE pc' = "upload_auth" /\ UNCHANGED << ret, failed >>
    /\ UNCHANGED << spreadsheet, raised, written >>
    /\ UNCHANGED uploadFrame

\* Line 254: gspread.service_account(filename=...).
UploadAuthenticate ==
    /\ pc = "upload_auth"
    /\ \E ok \in BOOLEAN :
         IF ok THEN pc' = "upload_open" /\ UNCHANGED << ret, failed >>
         ELSE ReturnFalse("authenticate")
    /\ UNCHANGED << spreadsheet, raised, written >>
    /\ UNCHANGED uploadFrame

\* An open that creates the spreadsheet it does not find.
UploadOpenCreating ==
    /\ pc = "upload_open"
    /\ \E ok \in BOOLEAN :
         IF ok
         THEN /\ spreadsheet' = [spreadsheet EXCEPT !.exists = TRUE]
              /\ pc' = "upload_ws"
              /\ UNCHANGED << ret, failed >>
         ELSE ReturnFalse("open") /\ UNCHANGED spreadsheet
    /\ UNCHANGED << raised, written >>
    /\ UNCHANGED uploadFrame

\* Line 257: gc.open(sheet_name); SpreadsheetNotFound when there is none.
UploadOpen ==
    /\ pc = "upload_open"
    /\ \E ok \in BOOLEAN :
         IF ok /\ spreadsheet.exists
         THEN pc' = "upload_ws" /\ UNCHANGED << ret, failed >>
         ELSE ReturnFalse("open")
    /\ UNCHANGED << spreadsheet, raised, written >>
    /\ UNCHANGED uploadFrame

\* Lines 260-265: sh.worksheet(name), or add_worksheet when it is not found.
UploadWorksheet ==
    /\ pc = "upload_ws"
    /\ \E ok \in BOOLEAN :
         IF ok
         THEN /\ spreadsheet' =
                   IF spreadsheet.worksheets[call.worksheet_name].present
                   THEN spreadsheet
                   ELSE AddWorksheet(spreadsheet, call.worksheet_name)
              /\ pc' = "upload_clear"
              /\ UNCHANGED << ret, failed >>
         ELSE ReturnFalse("worksheet") /\ UNCHANGED spreadsheet
    /\ UNCHANGED << raised, written >>
    /\ UNCHANGED uploadFrame

\* Line 268: worksheet.clear().
UploadClear ==
    /\ pc = "upload_clear"
    /\ \E ok \in BOOLEAN :
         IF ok
         THEN /\ spreadsheet' = Clear(spreadsheet, call.worksheet_name)
              /\ pc' = "upload_write"
              /\ UNCHANGED << ret, failed >>
         ELSE ReturnFalse("clear") /\ UNCHANGED spreadsheet
    /\ UNCHANGED << raised, written >>
    /\ UNCHANGED uploadFrame

\* chr(64 + start_col) on line 271 raises ValueError outside this range.
ChrMax == 1114111

\* A write whose failure puts the spreadsheet back as the call found it.
UploadWriteRollback ==
    /\ pc = "upload_write"
    /\ \E ok \in BOOLEAN :
         IF ok /\ 64 + call.start_col \in 0..ChrMax
         THEN /\ spreadsheet' = SetWithDataframe(spreadsheet, call.worksheet_name,
                                                 call.df, call.start_row,
                                                 call.start_col)
              /\ written' = [written EXCEPT ![call.data_type] =
                                FrameCells(call.df, call.start_row, call.start_col)]
              /\ ret' = TRUE
              /\ pc' = "upload_ret"
              /\ UNCHANGED failed
         ELSE /\ ReturnFalse("write")
              /\ spreadsheet' = atStart
              /\ UNCHANGED written
    /\ UNCHANGED raised
    /\ UNCHANGED uploadFrame

\* Lines 271-278: set_with_dataframe, then return True.
UploadWrite ==
    /\ pc = "upload_write"
    /\ \E ok \in BOOLEAN :
         IF ok /\ 64 + call.start_col \in 0..ChrMax
         THEN /\ spreadsheet' = SetWithDataframe(spreadsheet, call.worksheet_name,
                                                 call.df, call.start_row,
                                                 call.start_col)
              /\ written' = [written EXCEPT ![call.data_type] =
                                FrameCells(call.df, call.start_row, call.start_col)]
              /\ ret' = TRUE
              /\ pc' = "upload_ret"
              /\ UNCHANGED failed
         ELSE ReturnFalse("write") /\ UNCHANGED << spreadsheet, written >>
    /\ UNCHANGED raised
    /\ UNCHANGED uploadFrame

Upload ==
    \/ UploadImport
    \/ UploadCredentials
    \/ UploadAuthenticate
    \/ UploadOpen
    \/ UploadWorksheet
    \/ UploadClear
    \/ UploadWrite

(***************************************************************************)
(* main and the script's entry point (main.py 384-431).                    *)
(***************************************************************************)
locals == << attempt, data, df, warnings, call, ret, failed, history, served >>

ClearLocals ==
    /\ attempt' = 0
    /\ data' = NonePayload
    /\ df' = NoneDF
    /\ warnings' = <<>>
    /\ call' = NoCall
    /\ ret' = FALSE
    /\ failed' = "none"
    /\ history' = <<>>
    /\ served' = NonePayload

\* Line 393: process_orders() is entered.
MainStart ==
    /\ pc = "main"
    /\ pc' = "fetch"
    /\ UNCHANGED << config, env, spreadsheet, kind, orders_success,
                    inventory_success, success, exit_code, gets, sleeps, stages,
                    atStart, interrupted, raised, written, calls, afterFirst >>
    /\ UNCHANGED locals

\* Lines 393-396: orders_success is bound, process_inventory() is entered.
MainAfterOrders ==
    /\ pc = "process_ret"
    /\ kind = "orders"
    /\ orders_success' = ret
    /\ ClearLocals
    /\ kind' = "inventory"
    /\ atStart' = spreadsheet
    /\ pc' = "fetch"
    /\ UNCHANGED << config, env, spreadsheet, inventory_success, success,
                    exit_code, gets, sleeps, stages, interrupted, raised, written, calls,
                    afterFirst >>

\* Line 396: inventory_success is bound.
MainAfterInventory ==
    /\ pc = "process_ret"
    /\ kind = "inventory"
    /\ inventory_success' = ret
    /\ ClearLocals
    /\ pc' = "final"
    /\ UNCHANGED << config, env, spreadsheet, kind, orders_success, success,
                    exit_code, gets, sleeps, stages, atStart, interrupted, raised, written,
                    calls, afterFirst >>

\* Lines 399-412 and 427: main returns, success is bound.
MainFinal ==
    /\ pc = "final"
    /\ success' = (orders_success /\ inventory_success)
    /\ pc' = "main_ret"
    /\ UNCHANGED << config, env, spreadsheet, kind, orders_success,
                    inventory_success, exit_code, gets, sleeps, stages, atStart,
                    interrupted, raised, written, calls, afterFirst >>
    /\ UNCHANGED locals

InMain ==
    {"main", "fetch", "sleep", "fetch_ret", "normalized", "upload_import", "upload_creds",
     "upload_auth", "upload_open", "upload_ws", "upload_clear", "upload_write",
     "upload_ret", "process_ret", "final"}

\* An interrupt handler that puts the spreadsheet back as the pipeline found it.
MainInterruptCleanup ==
    /\ pc \in InMain
    /\ interrupted' = TRUE
    /\ spreadsheet' = atStart
    /\ raised' = (IF pc = "upload_import" THEN "UnboundLocalError" ELSE raised)
    /\ success' = FALSE
    /\ pc' = "main_ret"
    /\ UNCHANGED << config, env, kind, orders_success, inventory_success,
                    exit_code, gets, sleeps, stages, atStart, written, calls,
                    afterFirst >>
    /\ UNCHANGED locals

\* Lines 414-421: KeyboardInterrupt delivered anywhere inside main's try block.
\* It is no Exception, so no handler below main catches it, and main's
\* `except KeyboardInterrupt` returns False.  Delivered in
\* upload_to_google_sheets before `import gspread` (228) has bound the name,
\* it is replaced by the UnboundLocalError of the clause on line 280, and
\* main's `except Exception` returns False.
MainInterrupt ==
    /\ pc \in InMain
    /\ interrupted' = TRUE
    /\ raised' = (IF pc = "upload_import" THEN "UnboundLocalError" ELSE raised)
    /\ success' = FALSE
    /\ pc' = "main_ret"
    /\ UNCHANGED << config, env, spreadsheet, kind, orders_success,
                    inventory_success, exit_code, gets, sleeps, stages, atStart,
                    written, calls, afterFirst >>
    /\ UNCHANGED locals

\* Lines 418-421: an exception that left a pipeline reaches `except Exception`.
MainExcept ==
    /\ pc = "upload_raise"
    /\ success' = FALSE
    /\ pc' = "main_ret"
    /\ UNCHANGED << config, env, spreadsheet, kind, orders_success,
                    inventory_success, exit_code, gets, sleeps, stages, atStart,
                    interrupted, raised, written, calls, afterFirst >>
    /\ UNCHANGED locals

\* Line 431: sys.exit(0 if success else 1).
Exit ==
    /\ pc = "main_ret"
    /\ exit_code' = (IF success THEN 0 ELSE 1)
    /\ pc' = "exited"
    /\ UNCHANGED << config, env, spreadsheet, kind, orders_success,
                    inventory_success, success, gets, sleeps, stages, atStart,
                    interrupted, raised, written, calls, afterFirst >>
    /\ UNCHANGED locals

Next ==
    \/ MainInterrupt
    \/ MainStart
    \/ FetchAttempt
    \/ FetchSleep
    \/ FetchExhausted
    \/ ProcessNormalize
    \/ ProcessUpload
    \/ Upload
    \/ ProcessAfterUpload
    \/ MainAfterOrders
    \/ MainAfterInventory
    \/ MainFinal
    \/ MainExcept
    \/ Exit

Spec == Init /\ [][Next]_vars

\* Every call the script makes (a GET with timeout=30, time.sleep, a
\* spreadsheet operation, a pandas call) returns or raises, and the single
\* thread then takes its next step.
SpecLive == Spec /\ WF_vars(Next)

(***************************************************************************)
(* Publishing one table twice to one target: upload_to_google_sheets is    *)
(* called, and called again with the same arguments once it returned True. *)
(***************************************************************************)
Tables ==
    { ProcessDataframe(b, k).frame : b \in Bodies, k \in Kinds } \ {NoneDF}

Anchors == { <<1, 1>>, <<1, 4>>, <<2, 2>>, <<3, 1>> }

InitPublish ==
    /\ config \in { c \in Configs : c.MAX_RETRIES = 0 }
    /\ env \in { e \in Envs : e.jsonErrorIsRequestException }
    /\ spreadsheet \in Spreadsheets
    /\ pc = "upload_import"
    /\ kind \in Kinds
    /\ \E t \in Tables, a \in Anchors :
         call = [df |-> t, worksheet_name |-> Target(kind).worksheet_name,
                 start_row |-> a[1], start_col |-> a[2], data_type |-> kind]
    /\ atStart = spreadsheet
    /\ afterFirst = spreadsheet
    /\ Common

PublishAgain ==
    /\ pc = "upload_ret"
    /\ ret
    /\ calls = 0
    /\ calls' = 1
    /\ afterFirst' = spreadsheet
    /\ pc' = "upload_import"
    /\ UNCHANGED << config, env, spreadsheet, kind, attempt, data, df, warnings,
                    call, ret, failed, orders_success, inventory_success, success,
                    exit_code, gets, sleeps, history, served, stages, atStart, interrupted,
                    raised, written >>

NextPublish ==
    \/ Upload
    \/ PublishAgain

SpecPublish == InitPublish /\ [][NextPublish]_vars

(***************************************************************************)
(* Properties.                                                             *)
(***************************************************************************)
UploadPcs ==
    {"upload_import", "upload_creds", "upload_auth", "upload_open", "upload_ws",
     "upload_clear", "upload_write", "upload_ret", "upload_raise"}

AfterMain == {"main_ret", "exited"}

Last(seq) == seq[Len(seq)]

\* The pipeline of kind k ran to its return statement.
Returned(k) ==
    /\ stages[k] # <<>>
    /\ Last(stages[k]) \in {"fetch_none", "normalize_none", "publish_true",
                            "publish_false"}

TargetWorksheet(k) == spreadsheet.worksheets[Target(k).worksheet_name]

\* C1: whatever the orders pipeline ends with, main goes on to execute the
\* inventory pipeline; and when the orders fetch fails while the inventory
\* fetch, DataFrame step and upload succeed, main returns False and the
\* inventory worksheet holds the inventory table.
C1_KindsAreIndependent ==
    /\ (pc \in AfterMain /\ ~interrupted) => stages["inventory"] # <<>>
    /\ (pc = "process_ret" /\ kind = "inventory" /\ ret
          /\ stages["orders"] = <<"fetch_none">>)
         => /\ ~orders_success
            /\ TargetWorksheet("inventory").cells
                 = FrameCells(df, Target("inventory").start_row,
                              Target("inventory").start_col)
    /\ (pc \in AfterMain /\ ~interrupted /\ stages["orders"] = <<"fetch_none">>)
         => ~success

\* C2: with max_retries >= 1 and every attempt failing at transport level,
\* fetch_api_data issues exactly max_retries GET requests and returns None.
C2_TransportFailuresExhaustRetries ==
    (/\ pc = "fetch_ret"
     /\ config.MAX_RETRIES >= 1
     /\ \A i \in 1..Len(history) : history[i] = "transport")
      => /\ gets[kind] = config.MAX_RETRIES
         /\ Len(history) = config.MAX_RETRIES
         /\ data = NonePayload

C2_Witness ==
    /\ pc = "fetch_ret"
    /\ config.MAX_RETRIES = 2
    /\ history = <<"transport", "transport">>
    /\ gets[kind] = 2

\* C3: a body that is not JSON is never followed by another GET: the attempt
\* it occurs on is the last one (the only one when it is the first response),
\* and fetch_api_data returns None at once.
C3_ParseFailureIsNotRetried ==
    \A i \in 1..Len(history) :
       history[i] = "parse"
         => /\ i = Len(history)
            /\ pc \notin {"fetch", "sleep"}
            /\ pc = "fetch_ret" => data = NonePayload

\* C4: once upload_to_google_sheets has returned True twice for the same
\* table and target, the spreadsheet is what it was after the first return,
\* whatever it was before, the target worksheet missing included.
C4_PublishIdempotent ==
    (pc = "upload_ret" /\ ret /\ calls = 1) => spreadsheet = afterFirst

C4_Witness ==
    /\ pc = "upload_ret" /\ ret /\ calls = 1
    /\ ~atStart.worksheets[call.worksheet_name].present
    /\ spreadsheet.worksheets[call.worksheet_name].cells # {}

\* C5: no step of upload_to_google_sheets ends the call with an exception:
\* the call always returns to its caller.
C5_PublishNeverRaises ==
    /\ pc # "upload_raise"
    /\ raised = "none"

\* C6: main's result is orders_success and inventory_success, taken after
\* both pipelines have returned, and the exit code is 0 exactly when it is
\* True and 1 otherwise.
C6_ResultIsConjunction ==
    /\ (pc \in AfterMain /\ ~interrupted)
         => /\ Returned("orders")
            /\ Returned("inventory")
            /\ success = (orders_success /\ inventory_success)
            /\ orders_success = (Last(stages["orders"]) = "publish_true")
            /\ inventory_success = (Last(stages["inventory"]) = "publish_true")
    /\ pc = "exited" => exit_code = (IF success THEN 0 ELSE 1)
    /\ pc # "exited" => exit_code = -1

\* C7: within a kind the DataFrame step is entered only after a fetch that
\* returned data and the upload only after a DataFrame step that returned a
\* table; a pipeline that ends at the fetch or at the DataFrame step returns
\* False and leaves the spreadsheet exactly as it found it.
C7_StepsAreGated ==
    /\ \A k \in Kinds : \A i \in 1..Len(stages[k]) :
         /\ stages[k][i] \in {"normalize_none", "normalize_table"}
              => i = 2 /\ stages[k][1] = "fetch_ok"
         /\ stages[k][i] = "publish_called"
              => i = 3 /\ stages[k][2] = "normalize_table"
    /\ pc \in UploadPcs => (~call.df.isNone /\ call.df = df /\ data # NonePayload)
    /\ (pc = "process_ret" /\ (data = NonePayload \/ df.isNone))
         => /\ ~ret
            /\ spreadsheet = atStart
            /\ Last(stages[kind]) \in {"fetch_none", "normalize_none"}

C7_Witness ==
    /\ pc = "process_ret"
    /\ data # NonePayload
    /\ df.isNone
    /\ TargetWorksheet(kind).present
    /\ TargetWorksheet(kind).cells # {}

\* C8: a payload of zero records gives None from the DataFrame step, not a
\* table of zero rows, for orders and for inventory, and the pipeline then
\* returns False.
C8_EmptyPayloadGivesNone ==
    (data.shape = "list" /\ data.records = <<>>)
      => /\ pc = "normalized" => df = NoneDF
         /\ pc \notin UploadPcs
         /\ pc = "process_ret" => (df = NoneDF /\ ~ret)

C8_Witness ==
    /\ pc = "process_ret"
    /\ kind = "inventory"
    /\ data = EmptyList
    /\ stages["orders"] = <<"fetch_ok", "normalize_none">>

HasType(cell, dtype) == cell.t = dtype

Castable(cell, dtype) == dtype = "str" \/ IntCastable(cell)

Count(seq, x) == Cardinality({i \in 1..Len(seq) : seq[i] = x})

Original == DataFrame(data).frame

C11_PublishReplacesContent ==
    (pc = "upload_ret" /\ ret)
      => LET ws    == spreadsheet.worksheets[call.worksheet_name]
             nrows == Len(call.df.rows)
             ncols == Len(call.df.columns)
         IN  /\ ws.present
             /\ \A j \in 1..ncols :
                  [r |-> call.start_row, c |-> call.start_col + j - 1,
                   v |-> Header(call.df.columns[j])] \in ws.cells
             /\ \A i \in 1..nrows : \A j \in 1..ncols :
                  [r |-> call.start_row + i, c |-> call.start_col + j - 1,
                   v |-> call.df.rows[i][call.df.columns[j]]] \in ws.cells
             /\ \A x \in ws.cells :
                  /\ x.r \in call.start_row..(call.start_row + nrows)
                  /\ x.c \in call.start_col..(call.start_col + ncols - 1)
             /\ Cardinality(ws.cells) = (nrows + 1) * ncols
             /\ ~atStart.worksheets[call.worksheet_name].present
                  => ws.rows = DefaultRows /\ ws.cols = DefaultCols

\* The worksheet held "old" in A1; the table went to B2 and A1 is empty.
C11_Witness ==
    /\ pc = "upload_ret" /\ ret /\ calls = 0
    /\ atStart.worksheets[call.worksheet_name] = StaleWorksheet
    /\ call.start_row = 2 /\ call.start_col = 2
    /\ Len(call.df.rows) = 2
    /\ \A x \in spreadsheet.worksheets[call.worksheet_name].cells : x.r >= 2

\* C12: when no spreadsheet of the configured name exists, no step of a run
\* creates it, no worksheet is created, cleared or written (the steps after
\* gc.open are never reached), and an upload that returns returns False, so
\* the pipeline does too.
C12_SpreadsheetNeverCreated ==
    ~atStart.exists
      => /\ spreadsheet = atStart
         /\ ~spreadsheet.exists
         /\ \A n \in WsNames : spreadsheet.worksheets[n] = NoWorksheet
         /\ pc \notin {"upload_ws", "upload_clear", "upload_write"}
         /\ written = [k \in Kinds |-> {}]
         /\ failed \notin {"worksheet", "clear", "write"}
         /\ pc = "upload_ret" => (~ret /\ failed # "none")
         /\ pc = "process_ret" => ~ret

\* gc.open raised SpreadsheetNotFound in the inventory upload, after it had
\* done so in the orders upload.
C12_Witness ==
    /\ pc = "upload_ret"
    /\ kind = "inventory"
    /\ failed = "open"
    /\ ~ret
    /\ ~atStart.exists
    /\ stages["orders"] = <<"fetch_ok", "normalize_table", "publish_called",
                            "publish_false">>

\* C13: an interrupt delivered at any point inside main (a fetch attempt, a
\* retry sleep, the DataFrame step, any step of an upload, for either kind)
\* makes main return False and the process exit with code 1; from the
\* interrupt on no GET, no sleep, no pipeline stage and no spreadsheet
\* operation happens, so what an interrupted upload had done stays done.
C13_InterruptStopsTheRun ==
    /\ [](pc \in InMain => ENABLED MainInterrupt)
    /\ [](interrupted => /\ pc \in AfterMain
                          /\ ~success
                          /\ pc = "exited" => exit_code = 1)
    /\ [][interrupted' => /\ spreadsheet' = spreadsheet
                           /\ stages' = stages
                           /\ gets' = gets
                           /\ sleeps' = sleeps
                           /\ written' = written
                           /\ UNCHANGED locals]_vars

\* Interrupted between worksheet.clear() and set_with_dataframe of the orders
\* upload: the process has exited with 1, the worksheet that held cells is
\* empty, and the inventory pipeline never started.
C13_Witness ==
    /\ interrupted
    /\ pc = "exited"
    /\ exit_code = 1
    /\ kind = "orders"
    /\ stages["orders"] = <<"fetch_ok", "normalize_table", "publish_called">>
    /\ atStart.worksheets["Orders"].cells # {}
    /\ spreadsheet.worksheets["Orders"].cells = {}
    /\ stages["inventory"] = <<>>

\* A JSON array of one or more records that each have store_id and quantity,
\* both strings that int() accepts.
IntegerStrings(payload) ==
    /\ payload.shape = "list"
    /\ payload.records # <<>>
    /\ \A i \in 1..Len(payload.records) :
         /\ Keys(payload.records[i]) = {"store_id", "quantity"}
         /\ \A key \in {"store_id", "quantity"} :
              /\ Lookup(payload.records[i], key).t = "str"
              /\ IntLiteral(Lookup(payload.records[i], key).s)

Fetching(k) == kind = k /\ stages[k] = <<>>

\* C15: every sleep lasts RETRY_DELAY; a fetch that has returned after n >= 1
\* GET requests has slept n - 1 times (0 times after 0 requests); a sleep is
\* entered only after a failed attempt that is not the last one and is
\* followed by the next attempt; nothing but that step of the retry loop
\* sleeps.
C15_OneFixedSleepBetweenAttempts ==
    /\ [](\A k \in Kinds : \A i \in 1..Len(sleeps[k]) :
             sleeps[k][i] = config.targets.RETRY_DELAY)
    /\ [](\A k \in Kinds :
             ~Fetching(k) => Len(sleeps[k]) = Max(gets[k] - 1, 0))
    /\ [](pc = "sleep" => /\ Len(sleeps[kind]) = gets[kind] - 1
                          /\ gets[kind] < config.MAX_RETRIES
                          /\ Last(history) \notin {"ok", "unexpected"})
    /\ []((pc = "fetch" /\ attempt < config.MAX_RETRIES)
            => Len(sleeps[kind]) = gets[kind])
    /\ [][sleeps' # sleeps
            => /\ pc = "sleep"
               /\ pc' = "fetch"
               /\ attempt' = attempt + 1
               /\ attempt' < config.MAX_RETRIES]_vars

\* Both fetches of a run took two attempts: one sleep each, of RETRY_DELAY.
C15_Witness ==
    /\ pc = "fetch_ret"
    /\ kind = "inventory"
    /\ config.targets.RETRY_DELAY = 5
    /\ gets = [k \in Kinds |-> 2]
    /\ sleeps = [k \in Kinds |-> <<5>>]
    /\ history = <<"transport", "ok">>

\* C16: an attempt that fails with neither a RequestException nor a
\* ValueError is the last attempt of its fetch: no GET and no sleep follow it,
\* whatever number of attempts remains, and fetch_api_data returns None, so
\* the pipeline returns False.
C16_UnexpectedFailureAborts ==
    \A i \in 1..Len(history) :
       history[i] = "unexpected"
         => /\ i = Len(history)
            /\ gets[kind] = i
            /\ Len(sleeps[kind]) = i - 1
            /\ pc \notin {"fetch", "sleep", "normalized"} \cup UploadPcs
            /\ pc \in {"fetch_ret", "process_ret"}
                 => /\ data = NonePayload
                    /\ stages[kind] = <<"fetch_none">>
            /\ pc = "process_ret" => ~ret

\* The first of two allowed attempts got a JSON number, whose len() raises
\* TypeError: one GET, no sleep, None.
C16_Witness ==
    /\ pc = "fetch_ret"
    /\ config.MAX_RETRIES = 2
    /\ history = <<"unexpected">>
    /\ served = NumberBody
    /\ gets[kind] = 1
    /\ sleeps[kind] = <<>>
    /\ data = NonePayload

\* What the target worksheet was when upload_to_google_sheets was called.
WorksheetAtStart == atStart.worksheets[call.worksheet_name]

\* C17: no step of an upload undoes an earlier one.  When set_with_dataframe
\* fails after worksheet.clear() succeeded, the call returns False and the
\* worksheet is there, empty, whatever it held before; when
\* worksheet.clear() fails after add_worksheet created the worksheet, the
\* call returns False and the created worksheet, 1000 by 20 and empty, is
\* still in the spreadsheet.
C17_NoRollback ==
    /\ (pc = "upload_ret" /\ failed = "write")
         => /\ ~ret
            /\ spreadsheet.worksheets[call.worksheet_name].present
            /\ spreadsheet.worksheets[call.worksheet_name].cells = {}
            /\ \A n \in WsNames \ {call.worksheet_name} :
                 spreadsheet.worksheets[n] = atStart.worksheets[n]
    /\ (pc = "upload_ret" /\ failed = "clear")
         => /\ ~ret
            /\ spreadsheet.worksheets[call.worksheet_name].present
            /\ (~WorksheetAtStart.present /\ calls = 0)
                 => spreadsheet.worksheets[call.worksheet_name]
                      = [present |-> TRUE, rows |-> DefaultRows,
                         cols |-> DefaultCols, cells |-> {}]
    /\ (pc = "upload_ret" /\ failed \in {"write", "clear"} /\ calls = 0
          /\ WorksheetAtStart.present)
         => /\ spreadsheet.worksheets[call.worksheet_name].rows
                 = WorksheetAtStart.rows
            /\ spreadsheet.worksheets[call.worksheet_name].cols
                 = WorksheetAtStart.cols

\* The worksheet held three cells; the clear emptied it, the write failed.
C17_Witness ==
    /\ pc = "upload_ret"
    /\ failed = "write"
    /\ ~ret
    /\ calls = 0
    /\ WorksheetAtStart = StaleWorksheet
    /\ spreadsheet.worksheets[call.worksheet_name].cells = {}

\* C18: a fetch never issues more than MAX_RETRIES GET requests, none at all
\* (and None returned) when MAX_RETRIES is 0; an attempt that succeeds is the
\* last request of its fetch; and a fetch whose attempts 1..k-1 failed at
\* transport level and whose attempt k succeeded has issued exactly k
\* requests and returns the body that attempt k received.
C18_RequestsBoundedAndFirstSuccessReturned ==
    /\ \A k \in Kinds : gets[k] <= config.MAX_RETRIES
    /\ (config.MAX_RETRIES = 0 /\ pc \in {"fetch_ret", "process_ret"})
         => /\ gets[kind] = 0
            /\ data = NonePayload
            /\ stages[kind] = <<"fetch_none">>
    /\ \A i \in 1..Len(history) :
         history[i] = "ok" => /\ i = Len(history)
                              /\ pc \notin {"fetch", "sleep"}
    /\ (/\ pc = "fetch_ret"
        /\ history # <<>>
        /\ history[Len(history)] = "ok"
        /\ \A i \in 1..(Len(history) - 1) : history[i] = "transport")
         => /\ gets[kind] = Len(history)
            /\ Len(history) <= config.MAX_RETRIES
            /\ data = served
            /\ data # NonePayload
            /\ stages[kind] = <<"fetch_ok">>

\* The first attempt failed at transport level, the second received the two
\* store records: two requests, and those records are what is returned.
C18_Witness ==
    /\ pc = "fetch_ret"
    /\ config.MAX_RETRIES = 2
    /\ history = <<"transport", "ok">>
    /\ gets[kind] = 2
    /\ served = TwoStores
    /\ data = TwoStores

\* Both pipelines of an uninterrupted run returned True and main has returned.
BothPublished ==
    /\ pc \in AfterMain
    /\ ~interrupted
    /\ orders_success
    /\ inventory_success

\* During an upload no worksheet but the one named in the call differs from
\* what it was when the pipeline started.
OtherWorksheetsUntouched ==
    pc \in UploadPcs
      => \A n \in WsNames \ {call.worksheet_name} :
           spreadsheet.worksheets[n] = atStart.worksheets[n]

\* C19 as stated: an upload changes no worksheet but its own, and after a run
\* in which both pipelines succeeded the orders worksheet holds the orders
\* table and the inventory worksheet the inventory table, whatever the two
\* configured worksheet names are.
C19_EachWorksheetHoldsItsTable ==
    /\ OtherWorksheetsUntouched
    /\ BothPublished
         => \A k \in Kinds : TargetWorksheet(k).cells = written[k]

\* C19 amended: an upload changes no worksheet but its own; after a run in
\* which both pipelines succeeded and the two configured worksheet names
\* differ, each worksheet holds its kind's table; when the two names are the
\* same, that worksheet holds the inventory table only.
C19_EachWorksheetHoldsItsTableIfNamesDiffer ==
    /\ OtherWorksheetsUntouched
    /\ BothPublished
         => IF Target("orders").worksheet_name # Target("inventory").worksheet_name
            THEN \A k \in Kinds : TargetWorksheet(k).cells = written[k]
            ELSE /\ TargetWorksheet("inventory").cells = written["inventory"]
                 /\ TargetWorksheet("orders").cells # written["orders"]

\* Two worksheet names, both uploads succeeded: each worksheet holds a table
\* and the third worksheet still holds what it held.
C19_Witness ==
    /\ BothPublished
    /\ pc = "exited"
    /\ Target("orders").worksheet_name # Target("inventory").worksheet_name
    /\ written["orders"] # {}
    /\ TargetWorksheet("orders").cells = written["orders"]
    /\ TargetWorksheet("inventory").cells = written["inventory"]
    /\ spreadsheet.worksheets["Archive"] = StaleWorksheet

\* What a run may use, and what main hands back.
RunBounds ==
    /\ gets["orders"] + gets["inventory"] <= 2 * config.MAX_RETRIES
    /\ \A k \in Kinds : Count(stages[k], "publish_called") <= 1
    /\ pc \in AfterMain => success \in BOOLEAN
    /\ pc = "exited" => exit_code \in {0, 1}

\* C20: every run ends: the process exits, main having returned a boolean;
\* a run issues at most 2 * MAX_RETRIES GET requests and calls
\* upload_to_google_sheets at most once per kind, twice in all; and from the
\* first step of the inventory pipeline on, nothing of the orders pipeline
\* (its requests, sleeps, stages, written table) changes.
C20_RunTerminates ==
    /\ <>(pc = "exited")
    /\ RunBounds
    /\ [][RunBounds']_vars
    /\ [][kind = "inventory"
            => /\ kind' = "inventory"
               /\ stages'["orders"] = stages["orders"]
               /\ gets'["orders"] = gets["orders"]
               /\ sleeps'["orders"] = sleeps["orders"]
               /\ written'["orders"] = written["orders"]
               /\ orders_success' = orders_success]_vars

\* A run that used everything it may: two GET requests per kind, one upload
\* per kind, and it has exited.
C20_Witness ==
    /\ pc = "exited"
    /\ ~interrupted
    /\ config.MAX_RETRIES = 2
    /\ gets = [k \in Kinds |-> 2]
    /\ \A k \in Kinds : Count(stages[k], "publish_called") = 1

====
